---- MODULE Spec2Model ----
(***************************************************************************)
(* A model of the uncoupling application (jpurplefox/uncoupling): the      *)
(* MercadoLibre OAuth callback (my_auth), the user_registered signal       *)
(* fan-out, and the order / question synchronisation services with their   *)
(* repositories.                                                           *)
(*                                                                         *)
(* Python values are represented as follows.  Optional[T] is a set: {} is  *)
(* None and {v} is the value v.  Text that the code inspects (the callback *)
(* code, the phone parts) is a sequence of one-character strings, so that  *)
(* strip() and f-string formatting are computed; text that the code only   *)
(* copies is a TLA+ string.  A call that raises is recorded by the name of *)
(* the exception in the field "raised" of the call's record.               *)
(***************************************************************************)
EXTENDS Integers, Sequences, FiniteSets, TLC

VARIABLES
    event_dispatcher, \* MeliAuthService.event_dispatcher: the injected implementation
    users,            \* the MeliUser table / InMemoryUserRepository._users: id -> Optional row
    tokens,           \* the Token table / InMemoryUserRepository._tokens: user id -> Optional token
    orders,           \* the Order table: order id -> Optional row
    order_items,      \* the OrderItem rows of each order, in creation order
    payments,         \* the Payment rows of each order, in creation order
    questions,        \* the Question table: question id -> Optional row
    request,          \* the last request handled by the meli_callback view, with its response
    last,             \* the last call of MeliAuthService.handle_callback
    lastSync,         \* the last call of sync_orders / sync_questions
    pending,          \* Optional: an order or question of the API waiting to be saved,
                      \* or a call of a synchronisation service waiting to run
    notifications,    \* the Notification table: the rows in the order of their ids
    events,           \* the order_synced and question_received events sent so far
    lastNotification  \* the last call of NotificationService.create_*_notification

vars == <<event_dispatcher, users, tokens, orders, order_items, payments,
          questions, request, last, lastSync, pending,
          notifications, events, lastNotification>>

---------------------------------------------------------------------------
(* Bounds of the model *)

MaxUsers == 2
MaxTokenSerial == 2

UserIds == 1..MaxUsers

---------------------------------------------------------------------------
(* Python values *)

None == {}
Some(v) == {v}
Get(o) == CHOOSE v \in o : TRUE

Whitespace == {" "}

RECURSIVE lstrip(_)
lstrip(s) ==
    IF s # <<>> /\ Head(s) \in Whitespace THEN lstrip(Tail(s)) ELSE s

RECURSIVE rstrip(_)
rstrip(s) ==
    IF s # <<>> /\ s[Len(s)] \in Whitespace
    THEN rstrip(SubSeq(s, 1, Len(s) - 1))
    ELSE s

\* str.strip()
strip(s) == rstrip(lstrip(s))

---------------------------------------------------------------------------
(* mercadolibre: the token of the OAuth exchange, and /users/me *)

\* MeliToken: the n-th token MercadoLibre issues to a user
MeliToken(user_id, n) ==
    [user_id |-> user_id,
     access_token |-> <<"access", user_id, n>>,
     refresh_token |-> <<"refresh", user_id, n>>,
     expires_at |-> n]

Tokens == {MeliToken(u, n) : u \in UserIds, n \in 1..MaxTokenSerial}

\* the states of an account's profile at MercadoLibre
Profiles == {"old", "new"}

\* MeliUserInfo: what /users/me answers for an account in profile p
MeliUserInfo(user_id, p) ==
    [id |-> user_id,
     email |-> <<"email", user_id, p>>,
     nickname |-> <<"nickname", user_id, p>>,
     first_name |-> Some(<<"first_name", p>>),
     last_name |-> Some(<<"last_name", p>>)]

\* MeliUserService.get_user_info(token): GET /users/me with the token's
\* access token answers the account the token belongs to
get_user_info(token) == {MeliUserInfo(token.user_id, p) : p \in Profiles}

---------------------------------------------------------------------------
(* orders: what the MercadoLibre API answers (MeliOrder and its parts) *)

MaxItems == 2
MaxPayments == 2
MaxFetched == 2

\* the ids of the orders MercadoLibre knows
OrderIds == {1, 2}

\* dict.get(key, default) on a dict whose values are Optional
DictGet(d, key, default) == IF key \in DOMAIN d THEN d[key] ELSE default

\* bool(x) of an Optional[str]: None and '' are falsy
TruthyStr(o) == o # None /\ Get(o) # <<>>

\* f"{x}" of an Optional[str]: None is formatted as the text None
Format(o) == IF o = None THEN <<"N", "o", "n", "e">> ELSE Get(o)

\* a float amount is kept in hundredths; str(x) is its decimal text
\* <<integer part, hundredths>> and Decimal(text) reads that text back
str_float(x) == <<x \div 100, x % 100>>
Decimal(text) == text[1] * 100 + text[2]

\* an ISO 8601 text is <<instant, zone suffix>>
IsoZ(n) == <<n, "Z">>
IsoOffset(n) == <<n, "+00:00">>

\* the values of the JSON object buyer.phone: null, '' or digits
PhoneValues == {None, Some(<<>>), Some(<<"1", "1">>)}
PhoneKeys == {"area_code", "number"}
PhoneDicts == UNION {[K -> PhoneValues] : K \in SUBSET PhoneKeys}
Phones == {None} \cup {Some(d) : d \in PhoneDicts}

EmptyDict == [k \in {} |-> None]
Shippings == {None, Some(EmptyDict), Some([id |-> Some(7777)])}

\* MeliOrderItem number k of an order
MeliOrderItem(k) ==
    [item |-> IF k % 2 = 1
              THEN [id |-> Some(<<"MLB", k>>), title |-> Some(<<"Producto", k>>)]
              ELSE [id |-> Some(<<"MLB", k>>)],
     quantity |-> k + 1,
     unit_price |-> 15000 + k,
     currency_id |-> "BRL"]

\* MeliPayment number k of an order
MeliPayment(k) ==
    [id |-> 990 + k,
     transaction_amount |-> 30000 + k,
     currency_id |-> "BRL",
     status |-> IF k % 2 = 1 THEN "approved" ELSE "rejected",
     payment_type |-> IF k % 2 = 1 THEN Some("credit_card") ELSE None]

\* the shapes an order of the API takes
Variants ==
    [status : {"paid", "cancelled"},
     phone : Phones,
     items : 0..MaxItems,
     payments : 0..MaxPayments,
     closed : BOOLEAN,
     paid_amount : {None, Some(0), Some(30000)},
     shipping : Shippings]

\* MeliOrder: the order with this id in shape v
MeliOrder(id, v) ==
    [id |-> id,
     status |-> v.status,
     date_created |-> IsoZ(id),
     date_closed |-> IF v.closed THEN Some(IsoOffset(id + 1)) ELSE None,
     last_updated |-> IsoZ(id + 1),
     buyer |-> [id |-> 88880 + id,
                nickname |-> Some(<<"BUYER", id>>),
                email |-> IF v.closed THEN Some(<<"buyer@", id>>) ELSE None,
                phone |-> v.phone,
                first_name |-> Some("Juan"),
                last_name |-> None],
     order_items |-> [k \in 1..v.items |-> MeliOrderItem(k)],
     total_amount |-> 30000 + v.items,
     paid_amount |-> v.paid_amount,
     currency_id |-> "BRL",
     payments |-> [k \in 1..v.payments |-> MeliPayment(k)],
     shipping |-> v.shipping]

MeliOrders == {MeliOrder(id, v) : id \in OrderIds, v \in Variants}

\* the shapes the synchronisation runs draw their batches from
PaidVariant ==
    [status |-> "paid",
     phone |-> Some([area_code |-> Some(<<"1", "1">>), number |-> Some(<<"1", "1">>)]),
     items |-> 1, payments |-> 1, closed |-> TRUE,
     paid_amount |-> Some(30000), shipping |-> Some([id |-> Some(7777)])]

CancelledVariant ==
    [status |-> "cancelled", phone |-> None, items |-> MaxItems, payments |-> 0,
     closed |-> FALSE, paid_amount |-> None, shipping |-> None]

\* the lists of at most MaxFetched elements of S
Batches(S) == UNION {[1..n -> S] : n \in 0..MaxFetched}

\* the answers of the order gateway the synchronisation runs draw from: any
\* list of order ids, repeated ids included, the orders at odd places paid
\* and those at even places cancelled
OrderBatches ==
    {[k \in 1..Len(ids) |->
        MeliOrder(ids[k], IF k % 2 = 1 THEN PaidVariant ELSE CancelledVariant)] :
     ids \in Batches(OrderIds)}

---------------------------------------------------------------------------
(* orders: the repository (Django ORM tables Order, OrderItem, Payment) *)

\* OrderItemData.model_validate(item) / PaymentData.model_validate(payment):
\* the row read back with the fields the domain model declares
OrderItemData(row) ==
    [item_id |-> row.item_id, title |-> row.title, quantity |-> row.quantity,
     unit_price |-> row.unit_price, currency_id |-> row.currency_id]

PaymentData(row) ==
    [payment_id |-> row.payment_id, transaction_amount |-> row.transaction_amount,
     currency_id |-> row.currency_id, status |-> row.status,
     payment_type |-> row.payment_type]

\* DBOrderRepository._to_order_data: the aggregate of the row of order id
to_order_data(db, id) ==
    LET order == Get(db.orders[id]) IN
    [id |-> order.id,
     meli_user_id |-> order.meli_user_id,
     status |-> order.status,
     date_created |-> order.date_created,
     date_closed |-> order.date_closed,
     last_updated |-> order.last_updated,
     buyer_id |-> order.buyer_id,
     buyer_nickname |-> order.buyer_nickname,
     buyer_email |-> order.buyer_email,
     buyer_phone |-> order.buyer_phone,
     buyer_first_name |-> order.buyer_first_name,
     buyer_last_name |-> order.buyer_last_name,
     total_amount |-> order.total_amount,
     paid_amount |-> order.paid_amount,
     currency_id |-> order.currency_id,
     shipping_id |-> order.shipping_id,
     order_items |-> [k \in 1..Len(db.order_items[id]) |-> OrderItemData(db.order_items[id][k])],
     payments |-> [k \in 1..Len(db.payments[id]) |-> PaymentData(db.payments[id][k])]]

\* Order.objects.update_or_create(id=..., defaults={...}): the row written
OrderRow(order_data) ==
    [id |-> order_data.id,
     meli_user_id |-> order_data.meli_user_id,
     status |-> order_data.status,
     date_created |-> order_data.date_created,
     date_closed |-> order_data.date_closed,
     last_updated |-> order_data.last_updated,
     buyer_id |-> order_data.buyer_id,
     buyer_nickname |-> order_data.buyer_nickname,
     buyer_email |-> order_data.buyer_email,
     buyer_phone |-> order_data.buyer_phone,
     buyer_first_name |-> order_data.buyer_first_name,
     buyer_last_name |-> order_data.buyer_last_name,
     total_amount |-> order_data.total_amount,
     paid_amount |-> order_data.paid_amount,
     currency_id |-> order_data.currency_id,
     shipping_id |-> order_data.shipping_id]

\* rows that are kept whether or not the order already existed
RowsKept_all(rows, created) == rows

\* the rows left of an order's items / payments once update_or_create has
\* answered: an order that already existed has its rows deleted
RowsKept(rows, created) == IF ~created THEN <<>> ELSE rows

\* DBOrderRepository.save(order_data) on the tables db, with the MeliUser
\* table us: the tables afterwards, and the aggregate returned or the
\* exception raised
DBOrderRepository_save(db, us, order_data) ==
    IF us[order_data.meli_user_id] = None
    THEN [db |-> db, raised |-> Some("MeliUser.DoesNotExist"), returned |-> None]
    ELSE
        LET id == order_data.id
            created == db.orders[id] = None
            items == RowsKept(db.order_items[id], created) \o order_data.order_items
            pays == RowsKept(db.payments[id], created) \o order_data.payments
            after == [orders |-> [db.orders EXCEPT ![id] = Some(OrderRow(order_data))],
                      order_items |-> [db.order_items EXCEPT ![id] = items],
                      payments |-> [db.payments EXCEPT ![id] = pays]]
        IN  [db |-> after, raised |-> None, returned |-> Some(to_order_data(after, id))]

\* DBOrderRepository.get_by_user(meli_user): the aggregates of the rows owned
\* by the user (the order of the list, Meta.ordering, is not modelled)
orders_get_by_user(db, meli_user) ==
    {to_order_data(db, id) :
        id \in {i \in DOMAIN db.orders :
                    db.orders[i] # None /\ Get(db.orders[i]).meli_user_id = meli_user.id}}

---------------------------------------------------------------------------
(* orders: OrderSyncService *)

\* OrderSyncService._parse_iso_datetime: 'Z' is replaced by '+00:00' and the
\* text read by datetime.fromisoformat
parse_iso_datetime(iso_string) ==
    LET normalized == <<iso_string[1], IF iso_string[2] = "Z" THEN "+00:00" ELSE iso_string[2]>>
    IN  [instant |-> normalized[1],
         utcoffset |-> IF normalized[2] = "+00:00" THEN 0 ELSE -1]

\* the buyer_phone of _save_order
parse_buyer_phone(phone) ==
    IF phone # None /\ DOMAIN Get(phone) # {}
    THEN LET area_code == DictGet(Get(phone), "area_code", Some(<<>>))
             number == DictGet(Get(phone), "number", Some(<<>>))
         IN  IF TruthyStr(area_code) \/ TruthyStr(number)
             THEN Some(strip(Format(area_code) \o <<" ">> \o Format(number)))
             ELSE None
    ELSE None

\* the OrderData aggregate _save_order builds from a MeliOrder
build_order_data(meli_user, order) ==
    [id |-> order.id,
     meli_user_id |-> meli_user.id,
     status |-> order.status,
     date_created |-> parse_iso_datetime(order.date_created),
     date_closed |-> IF order.date_closed # None
                     THEN Some(parse_iso_datetime(Get(order.date_closed)))
                     ELSE None,
     last_updated |-> parse_iso_datetime(order.last_updated),
     buyer_id |-> order.buyer.id,
     buyer_nickname |-> order.buyer.nickname,
     buyer_email |-> order.buyer.email,
     buyer_phone |-> parse_buyer_phone(order.buyer.phone),
     buyer_first_name |-> order.buyer.first_name,
     buyer_last_name |-> order.buyer.last_name,
     total_amount |-> Decimal(str_float(order.total_amount)),
     paid_amount |-> IF order.paid_amount # None /\ Get(order.paid_amount) # 0
                     THEN Some(Decimal(str_float(Get(order.paid_amount))))
                     ELSE None,
     currency_id |-> order.currency_id,
     shipping_id |-> IF order.shipping # None /\ DOMAIN Get(order.shipping) # {}
                     THEN DictGet(Get(order.shipping), "id", None)
                     ELSE None,
     order_items |->
        [k \in 1..Len(order.order_items) |->
            LET item == order.order_items[k] IN
            [item_id |-> Get(DictGet(item.item, "id", Some(<<>>))),
             title |-> Get(DictGet(item.item, "title", Some(<<>>))),
             quantity |-> item.quantity,
             unit_price |-> Decimal(str_float(item.unit_price)),
             currency_id |-> item.currency_id]],
     payments |->
        [k \in 1..Len(order.payments) |->
            LET payment == order.payments[k] IN
            [payment_id |-> payment.id,
             transaction_amount |-> Decimal(str_float(payment.transaction_amount)),
             currency_id |-> payment.currency_id,
             status |-> payment.status,
             payment_type |-> payment.payment_type]]]

\* OrderSyncService._save_order(meli_user, order)
save_order(db, us, meli_user, order) ==
    DBOrderRepository_save(db, us, build_order_data(meli_user, order))

\* the loop of sync_orders from element i on; acc holds the tables, the
\* count so far and the aggregates saved so far
RECURSIVE sync_orders_loop(_, _, _, _, _)
sync_orders_loop(acc, us, meli_user, fetched, i) ==
    IF i > Len(fetched) THEN acc
    ELSE LET one == save_order(acc.db, us, meli_user, fetched[i]) IN
         IF one.raised # None
         THEN [acc EXCEPT !.raised = one.raised]
         ELSE sync_orders_loop(
                [acc EXCEPT !.db = one.db,
                            !.saved_count = acc.saved_count + 1,
                            !.saved = Append(acc.saved, Get(one.returned))],
                us, meli_user, fetched, i + 1)

\* a sync_orders that returns the number of distinct orders it saved
sync_orders_stored(db, us, meli_user, token, fetched) ==
    LET done == sync_orders_loop(
                    [db |-> db, saved_count |-> 0, saved |-> <<>>, raised |-> None],
                    us, meli_user, fetched, 1)
    IN  [db |-> done.db,
         gateway_calls |-> <<token>>,
         saved |-> done.saved,
         raised |-> done.raised,
         returned |-> IF done.raised = None
                      THEN Some(Cardinality({done.saved[k].id : k \in DOMAIN done.saved}))
                      ELSE None]

\* a sync_orders that asks the gateway once per order it saved, and once more
sync_orders_refetching(db, us, meli_user, token, fetched) ==
    LET done == sync_orders_loop(
                    [db |-> db, saved_count |-> 0, saved |-> <<>>, raised |-> None],
                    us, meli_user, fetched, 1)
    IN  [db |-> done.db,
         gateway_calls |-> [k \in 1..(Len(fetched) + 1) |-> token],
         saved |-> done.saved,
         raised |-> done.raised,
         returned |-> IF done.raised = None THEN Some(done.saved_count) ELSE None]

\* OrderSyncService.sync_orders(meli_user, token), the gateway answering
\* fetched: the tables afterwards, the calls of the gateway, the aggregates
\* saved, and the count returned (None when a save raised)
sync_orders(db, us, meli_user, token, fetched) ==
    LET done == sync_orders_loop(
                    [db |-> db, saved_count |-> 0, saved |-> <<>>, raised |-> None],
                    us, meli_user, fetched, 1)
    IN  [db |-> done.db,
         gateway_calls |-> <<token>>,
         saved |-> done.saved,
         raised |-> done.raised,
         returned |-> IF done.raised = None THEN Some(done.saved_count) ELSE None]

---------------------------------------------------------------------------
(* questions: MeliQuestion, the repository and QuestionSyncService *)


\* the ids of the questions MercadoLibre knows
QuestionIds == {1, 2}

\* MeliAnswer
Answers ==
    {None,
     Some([text |-> <<>>, date_created |-> IsoZ(5)]),
     Some([text |-> <<"S", "i">>, date_created |-> IsoOffset(6)])}

\* MeliQuestion: the question with this id and this answer
MeliQuestion(id, answer) ==
    [id |-> id,
     item_id |-> <<"MLB", id>>,
     text |-> <<"text", id>>,
     status |-> IF answer = None THEN "UNANSWERED" ELSE "ANSWERED",
     date_created |-> IsoZ(id),
     from_ |-> [id |-> 99990 + id],
     answer |-> answer]

MeliQuestions == {MeliQuestion(id, a) : id \in QuestionIds, a \in Answers}

\* the answers of the question gateway the synchronisation runs draw from:
\* any list of question ids, the answers taken in turn
AnswerAt(k) ==
    IF k % 3 = 1 THEN Some([text |-> <<"S", "i">>, date_created |-> IsoOffset(6)])
    ELSE IF k % 3 = 2 THEN None
    ELSE Some([text |-> <<>>, date_created |-> IsoZ(5)])

QuestionBatches ==
    {[k \in 1..Len(ids) |-> MeliQuestion(ids[k], AnswerAt(k))] : ids \in Batches(QuestionIds)}

\* DBQuestionRepository.save_or_update: Question.objects.update_or_create
\* keyed by id, every other column taken from the arguments
save_or_update(qs, question_id, meli_user, item_id, text, status, date_created, from_user_id, answer_text, answer_date_created) ==
    [qs EXCEPT ![question_id] =
        Some([id |-> question_id,
              meli_user_id |-> meli_user.id,
              item_id |-> item_id,
              text |-> text,
              status |-> status,
              date_created |-> date_created,
              from_user_id |-> from_user_id,
              answer_text |-> answer_text,
              answer_date_created |-> answer_date_created])]

\* DBQuestionRepository.get_by_user(meli_user)
questions_get_by_user(qs, meli_user) ==
    {Get(qs[i]) : i \in {j \in DOMAIN qs : qs[j] # None /\ Get(qs[j]).meli_user_id = meli_user.id}}

\* a _save_question that stores the answer's text without its date
save_question_undated(qs, meli_user, question) ==
    LET answered == question.answer # None
        answer_text == IF answered THEN Some(Get(question.answer).text) ELSE None
    IN  save_or_update(qs, question.id, meli_user, question.item_id, question.text,
                       question.status, parse_iso_datetime(question.date_created),
                       question.from_.id, answer_text, None)

\* QuestionSyncService._save_question(meli_user, question)
save_question(qs, meli_user, question) ==
    LET answered == question.answer # None
        answer_text == IF answered THEN Some(Get(question.answer).text) ELSE None
        answer_date_created ==
            IF answered
            THEN Some(parse_iso_datetime(Get(question.answer).date_created))
            ELSE None
    IN  save_or_update(qs, question.id, meli_user, question.item_id, question.text,
                       question.status, parse_iso_datetime(question.date_created),
                       question.from_.id, answer_text, answer_date_created)

\* the loop of sync_questions from element i on
RECURSIVE sync_questions_loop(_, _, _, _)
sync_questions_loop(acc, meli_user, fetched, i) ==
    IF i > Len(fetched) THEN acc
    ELSE sync_questions_loop(
            [acc EXCEPT !.questions = save_question(acc.questions, meli_user, fetched[i]),
                        !.saved_count = acc.saved_count + 1,
                        !.saved = Append(acc.saved, fetched[i].id)],
            meli_user, fetched, i + 1)

\* a sync_questions that returns the number of distinct questions it saved
sync_questions_stored(qs, meli_user, token, fetched) ==
    LET done == sync_questions_loop(
                    [questions |-> qs, saved_count |-> 0, saved |-> <<>>],
                    meli_user, fetched, 1)
    IN  [questions |-> done.questions,
         gateway_calls |-> <<token>>,
         saved |-> done.saved,
         raised |-> None,
         returned |-> Some(Cardinality({done.saved[k] : k \in DOMAIN done.saved}))]

\* QuestionSyncService.sync_questions(meli_user, token), the gateway
\* answering fetched
sync_questions(qs, meli_user, token, fetched) ==
    LET done == sync_questions_loop(
                    [questions |-> qs, saved_count |-> 0, saved |-> <<>>],
                    meli_user, fetched, 1)
    IN  [questions |-> done.questions,
         gateway_calls |-> <<token>>,
         saved |-> done.saved,
         raised |-> None,
         returned |-> Some(done.saved_count)]

---------------------------------------------------------------------------
(* dependency injection and the receivers of user_registered *)

\* providers.Singleton(cls, **kwargs): the provider calls cls(**kwargs), and
\* Python raises TypeError for a keyword the constructor does not declare
Provide(init_parameters, kwargs) ==
    IF kwargs \subseteq init_parameters THEN None ELSE Some("TypeError")

\* the parameters of OrderSyncService.__init__ and QuestionSyncService.__init__
OrderSyncService_init == {"order_repository", "meli_gateway"}
QuestionSyncService_init == {"question_repository", "meli_gateway"}

\* the keywords OrderContainer.order_sync_service and
\* QuestionContainer.question_sync_service pass
OrderContainer_order_sync_service ==
    {"order_repository", "meli_gateway", "event_dispatcher"}
QuestionContainer_question_sync_service ==
    {"question_repository", "meli_gateway", "event_dispatcher"}

\* orders.signals.on_user_registered: the injected service is built, then
\* sync_orders(meli_user, token) runs.  st holds the tables.
orders_on_user_registered(st, meli_user, token, fetched) ==
    LET injected == Provide(OrderSyncService_init, OrderContainer_order_sync_service) IN
    IF injected # None
    THEN [st |-> st, raised |-> injected, syncs |-> <<>>]
    ELSE LET r == sync_orders(st.db, st.users, meli_user, token, fetched) IN
         [st |-> [st EXCEPT !.db = r.db],
          raised |-> r.raised,
          syncs |-> <<[service |-> "sync_orders", meli_user |-> meli_user, token |-> token]>>]

\* questions.signals.on_user_registered
questions_on_user_registered(st, meli_user, token, fetched) ==
    LET injected == Provide(QuestionSyncService_init, QuestionContainer_question_sync_service) IN
    IF injected # None
    THEN [st |-> st, raised |-> injected, syncs |-> <<>>]
    ELSE LET r == sync_questions(st.questions, meli_user, token, fetched) IN
         [st |-> [st EXCEPT !.questions = r.questions],
          raised |-> r.raised,
          syncs |-> <<[service |-> "sync_questions", meli_user |-> meli_user, token |-> token]>>]

\* the receiver of one application
Receiver(app, st, meli_user, token, fo, fq) ==
    IF app = "orders"
    THEN orders_on_user_registered(st, meli_user, token, fo)
    ELSE questions_on_user_registered(st, meli_user, token, fq)

\* DjangoSignalEventDispatcher.dispatch: signal.send calls the receivers in
\* the order they connected, and an exception of one ends the send
DjangoSignalEventDispatcher_dispatch(receivers, st, meli_user, token, fo, fq) ==
    LET one == Receiver(receivers[1], st, meli_user, token, fo, fq) IN
    IF one.raised # None THEN one
    ELSE LET two == Receiver(receivers[2], one.st, meli_user, token, fo, fq) IN
         [st |-> two.st, raised |-> two.raised, syncs |-> one.syncs \o two.syncs]

\* the implementations of EventDispatcher: the one AuthContainer provides,
\* with the receivers of user_registered in the order the applications
\* connected them (the order of INSTALLED_APPS), and the Mock the tests
\* inject, which only records the call
Dispatchers ==
    {[impl |-> "Mock", receivers |-> <<>>],
     [impl |-> "DjangoSignalEventDispatcher", receivers |-> <<"orders", "questions">>],
     [impl |-> "DjangoSignalEventDispatcher", receivers |-> <<"questions", "orders">>]}

\* EventDispatcher.dispatch(user_registered, sender=MeliUser, meli_user, token)
dispatch(dispatcher, st, meli_user, token, fo, fq) ==
    IF dispatcher.impl = "DjangoSignalEventDispatcher"
    THEN DjangoSignalEventDispatcher_dispatch(dispatcher.receivers, st, meli_user, token, fo, fq)
    ELSE [st |-> st, raised |-> None, syncs |-> <<>>]

\* whether a dispatch reaches a gateway: only then is its answer drawn
ReachesGateway(dispatcher, init_parameters, kwargs) ==
    dispatcher.impl = "DjangoSignalEventDispatcher" /\ Provide(init_parameters, kwargs) = None

---------------------------------------------------------------------------
(* my_auth: the user repository and MeliAuthService *)

\* UserRepository.create: the MeliUser row with its Django user
create(us, username, email, first_name, last_name, meli_user_id) ==
    LET meli_user == [id |-> meli_user_id,
                      user |-> [username |-> username, email |-> email,
                                first_name |-> first_name, last_name |-> last_name]]
    IN  [users |-> [us EXCEPT ![meli_user_id] = Some(meli_user)], returned |-> meli_user]

\* a save_token that keeps the token a user already holds
save_token_kept(ts, token) ==
    IF ts[token.user_id] # None THEN ts ELSE [ts EXCEPT ![token.user_id] = Some(token)]

\* UserRepository.save_token: the token of token.user_id is created or replaced
save_token(ts, token) == [ts EXCEPT ![token.user_id] = Some(token)]

\* a _register_user that creates the user and dispatches nothing
register_user_silent(dispatcher, st, token, user_info, fo, fq) ==
    LET made == create(st.users, user_info.nickname, user_info.email,
                       user_info.first_name, user_info.last_name, user_info.id)
    IN  [st |-> [st EXCEPT !.users = made.users],
         calls |-> <<"get_user_info", "create">>,
         dispatched |-> <<>>,
         syncs |-> <<>>,
         created |-> Some(made.returned),
         raised |-> None,
         returned |-> Some(made.returned)]

\* MeliAuthService._register_user(token), /users/me answering user_info
\* (sent names the one call of dispatch)
register_user(dispatcher, st, token, user_info, fo, fq) ==
    LET made == create(st.users, user_info.nickname, user_info.email,
                       user_info.first_name, user_info.last_name, user_info.id)
        meli_user == made.returned
    IN  CHOOSE result \in
        {[st |-> sent.st,
          calls |-> <<"get_user_info", "create", "dispatch">>,
          dispatched |-> <<[signal |-> "user_registered", sender |-> "MeliUser",
                            meli_user |-> meli_user, token |-> token]>>,
          syncs |-> sent.syncs,
          created |-> Some(meli_user),
          raised |-> sent.raised,
          returned |-> IF sent.raised = None THEN Some(meli_user) ELSE None] :
         sent \in {dispatch(dispatcher, [st EXCEPT !.users = made.users],
                            meli_user, token, fo, fq)}} : TRUE

\* MeliAuthService.handle_callback(code), the OAuth exchange answering token
\* (reg names the one run of _register_user)
handle_callback(dispatcher, st, code, token, user_info, fo, fq) ==
    LET found == st.users[token.user_id] IN
    IF found # None
    THEN [st |-> [st EXCEPT !.tokens = save_token(st.tokens, token)],
          calls |-> <<"get_token", "get_by_id", "save_token">>,
          dispatched |-> <<>>, syncs |-> <<>>, created |-> None,
          raised |-> None, returned |-> found]
    ELSE CHOOSE result \in
        {IF reg.raised # None
         THEN [st |-> reg.st,
               calls |-> <<"get_token", "get_by_id">> \o reg.calls,
               dispatched |-> reg.dispatched, syncs |-> reg.syncs,
               created |-> reg.created, raised |-> reg.raised, returned |-> None]
         ELSE [st |-> [reg.st EXCEPT !.tokens = save_token(reg.st.tokens, token)],
               calls |-> <<"get_token", "get_by_id">> \o reg.calls \o <<"save_token">>,
               dispatched |-> reg.dispatched, syncs |-> reg.syncs,
               created |-> reg.created, raised |-> None, returned |-> reg.returned] :
         reg \in {register_user(dispatcher, st, token, user_info, fo, fq)}} : TRUE

---------------------------------------------------------------------------
(* my_auth: MeliCallbackForm and the meli_callback view *)

CharField_max_length == 255

\* forms.CharField(required=False, max_length=255).clean(raw): a missing
\* parameter is '', the text is stripped; None stands for a field error
CharField_clean(raw) ==
    LET value == IF raw = None THEN <<>> ELSE strip(Get(raw)) IN
    IF Len(value) > CharField_max_length THEN None ELSE Some(value)

\* a form whose clean() rejects a truthy error only
is_valid_any(GET) ==
    LET code == CharField_clean(GET.code)
        error == CharField_clean(GET.error)
    IN  code # None /\ error # None /\ ~TruthyStr(error)

\* MeliCallbackForm(request.GET).is_valid(): the fields are cleaned, then
\* clean() rejects a truthy error and a falsy code
is_valid(GET) ==
    LET code == CharField_clean(GET.code)
        error == CharField_clean(GET.error)
    IN  /\ code # None
        /\ error # None
        /\ ~TruthyStr(error)
        /\ TruthyStr(code)

\* form.cleaned_data.get('code')
cleaned_code(GET) == Get(CharField_clean(GET.code))

\* the texts a callback request carries in its parameters
Requests ==
    {[code |-> None, error |-> None],
     [code |-> Some(<<>>), error |-> None],
     [code |-> Some(<<" ">>), error |-> Some(<<>>)],
     [code |-> Some(<<"c">>), error |-> None],
     [code |-> Some(<<" ", "c", "d">>), error |-> Some(<<>>)],
     [code |-> Some(<<"c">>), error |-> Some(<<"d">>)],
     [code |-> None, error |-> Some(<<"d">>)]}

\* the codes a client passes to handle_callback
Codes == {<<"c">>, <<"c", "d">>}

\* the meli_callback view on request.GET: the calls it makes on its injected
\* collaborators in order, the user DjangoSessionManager.authenticate_session
\* logs in, and the response (an exception that leaves the view is status 500);
\* h names the one run of handle_callback
meli_callback(dispatcher, st, GET, token, user_info, fo, fq) ==
    IF ~is_valid(GET)
    THEN [st |-> st, handled |-> None, calls |-> <<>>, session_user |-> None,
          response |-> [status |-> 400]]
    ELSE LET code == cleaned_code(GET) IN
         CHOOSE result \in
            {IF h.raised # None
             THEN [st |-> h.st, handled |-> Some(h),
                   calls |-> <<[fn |-> "handle_callback", arg |-> code]>>,
                   session_user |-> None,
                   response |-> [status |-> 500]]
             ELSE [st |-> h.st, handled |-> Some(h),
                   calls |-> <<[fn |-> "handle_callback", arg |-> code],
                               [fn |-> "authenticate_session",
                                arg |-> Get(h.returned).user]>>,
                   session_user |-> Some(Get(h.returned).user),
                   response |-> [status |-> 302, url |-> "/"]] :
             h \in {handle_callback(dispatcher, st, code, token, user_info, fo, fq)}} : TRUE

---------------------------------------------------------------------------
(* The state machine *)

db == [orders |-> orders, order_items |-> order_items, payments |-> payments]
st == [users |-> users, tokens |-> tokens, db |-> db, questions |-> questions]

NoRequest == [view |-> "none"]
NoCall == [op |-> "none"]
NoSync == [service |-> "none"]
NoNotification == [op |-> "none"]

\* the state after construction: empty tables, either dispatcher injected
Init ==
    /\ event_dispatcher \in Dispatchers
    /\ users = [u \in UserIds |-> None]
    /\ tokens = [u \in UserIds |-> None]
    /\ orders = [i \in OrderIds |-> None]
    /\ order_items = [i \in OrderIds |-> <<>>]
    /\ payments = [i \in OrderIds |-> <<>>]
    /\ questions = [i \in QuestionIds |-> None]
    /\ request = NoRequest
    /\ last = NoCall
    /\ lastSync = NoSync
    /\ pending = None
    /\ notifications = <<>>
    /\ events = <<>>
    /\ lastNotification = NoNotification

\* the answers of the gateways a handle_callback may reach
FetchedOrders == 
    IF ReachesGateway(event_dispatcher, OrderSyncService_init, OrderContainer_order_sync_service)
    THEN OrderBatches ELSE {<<>>}
FetchedQuestions ==
    IF ReachesGateway(event_dispatcher, QuestionSyncService_init,
                      QuestionContainer_question_sync_service)
    THEN QuestionBatches ELSE {<<>>}

\* the answers of MercadoLibre are drawn where the code asks for them: the
\* token when the form is valid, /users/me when the user is not registered
Drawn(asked, answers) == IF asked THEN answers ELSE {CHOOSE a \in answers : TRUE}
TokenAnswers(GET) == Drawn(is_valid(GET), Tokens)
UserInfoAnswers(token) == Drawn(users[token.user_id] = None, get_user_info(token))

\* the record of a call of handle_callback
CallRecord(code, token, user_info, h) ==
    [op |-> "handle_callback",
     code |-> code,
     token |-> token,
     user_info |-> IF h.created # None THEN Some(user_info) ELSE None,
     users_before |-> users,
     tokens_before |-> tokens,
     calls |-> h.calls,
     dispatched |-> h.dispatched,
     syncs |-> h.syncs,
     created |-> h.created,
     raised |-> h.raised,
     returned |-> h.returned]

SetTables(after) ==
    /\ users' = after.users
    /\ tokens' = after.tokens
    /\ orders' = after.db.orders
    /\ order_items' = after.db.order_items
    /\ payments' = after.db.payments
    /\ questions' = after.questions

\* a caller invokes MeliAuthService.handle_callback(code)
HandleCallback ==
    \E code \in Codes, token \in Tokens :
    \E user_info \in UserInfoAnswers(token), fo \in FetchedOrders, fq \in FetchedQuestions :
    \E h \in {handle_callback(event_dispatcher, st, code, token, user_info, fo, fq)} :
        /\ SetTables(h.st)
        /\ last' = CallRecord(code, token, user_info, h)
        /\ request' = NoRequest
        /\ UNCHANGED <<notifications, events, lastNotification, event_dispatcher, lastSync, pending>>

\* a browser requests /auth/meli/callback/
MeliCallback ==
    \E GET \in Requests :
    \E token \in TokenAnswers(GET) :
    \E user_info \in UserInfoAnswers(token), fo \in FetchedOrders, fq \in FetchedQuestions :
    \E v \in {meli_callback(event_dispatcher, st, GET, token, user_info, fo, fq)} :
        /\ SetTables(v.st)
        /\ last' = IF v.handled # None
                   THEN CallRecord(cleaned_code(GET), token, user_info, Get(v.handled))
                   ELSE NoCall
        /\ request' = [view |-> "meli_callback",
                       GET |-> GET,
                       users_before |-> users,
                       tokens_before |-> tokens,
                       calls |-> v.calls,
                       session_user |-> v.session_user,
                       response |-> v.response]
        /\ UNCHANGED <<notifications, events, lastNotification, event_dispatcher, lastSync, pending>>

\* the service called by its clients
Next == HandleCallback

Spec == Init /\ [][Next]_vars

\* the web application: every callback goes through the view
NextView == MeliCallback

SpecView == Init /\ [][NextView]_vars

---------------------------------------------------------------------------
(* The synchronisation services called for registered sellers *)

\* every seller has registered and holds a token
InitSellers ==
    /\ event_dispatcher = [impl |-> "Mock", receivers |-> <<>>]
    /\ users = [u \in UserIds |->
                   LET info == MeliUserInfo(u, "old") IN
                   Some(create([v \in UserIds |-> None], info.nickname, info.email,
                               info.first_name, info.last_name, info.id).returned)]
    /\ tokens = [u \in UserIds |-> Some(MeliToken(u, 1))]
    /\ request = NoRequest
    /\ last = NoCall
    /\ lastSync = NoSync
    /\ notifications = <<>>
    /\ events = <<>>
    /\ lastNotification = NoNotification

\* the tables of orders and questions before any synchronisation
NoOrders ==
    [orders |-> [i \in OrderIds |-> None],
     order_items |-> [i \in OrderIds |-> <<>>],
     payments |-> [i \in OrderIds |-> <<>>]]
NoQuestions == [i \in QuestionIds |-> None]

InitSync ==
    /\ InitSellers
    /\ orders = NoOrders.orders
    /\ order_items = NoOrders.order_items
    /\ payments = NoOrders.payments
    /\ questions = NoQuestions
    /\ pending = None

\* the record of a call of sync_orders or sync_questions; before is what
\* get_by_user answered for the user when the call began
SyncRecord(service, meli_user, token, fetched, before, r) ==
    [service |-> service,
     meli_user |-> meli_user,
     token |-> token,
     fetched |-> fetched,
     before |-> before,
     gateway_calls |-> r.gateway_calls,
     saved |-> r.saved,
     raised |-> r.raised,
     returned |-> r.returned]

\* OrderSyncService.sync_orders(meli_user, token) for a registered seller and
\* the seller's token
SyncOrders ==
    \E u \in {v \in UserIds : users[v] # None /\ tokens[v] # None} :
    \E fetched \in OrderBatches :
    \E r \in {sync_orders(db, users, Get(users[u]), Get(tokens[u]), fetched)} :
        /\ orders' = r.db.orders
        /\ order_items' = r.db.order_items
        /\ payments' = r.db.payments
        /\ lastSync' = SyncRecord("sync_orders", Get(users[u]), Get(tokens[u]), fetched,
                                  orders_get_by_user(db, Get(users[u])), r)
        /\ UNCHANGED <<notifications, events, lastNotification, event_dispatcher, users, tokens, questions, request, last, pending>>

\* QuestionSyncService.sync_questions(meli_user, token)
SyncQuestions ==
    \E u \in {v \in UserIds : users[v] # None /\ tokens[v] # None} :
    \E fetched \in QuestionBatches :
    \E r \in {sync_questions(questions, Get(users[u]), Get(tokens[u]), fetched)} :
        /\ questions' = r.questions
        /\ lastSync' = SyncRecord("sync_questions", Get(users[u]), Get(tokens[u]), fetched,
                                  questions_get_by_user(questions, Get(users[u])), r)
        /\ UNCHANGED <<notifications, events, lastNotification, event_dispatcher, users, tokens, orders, order_items, payments,
                       request, last, pending>>

NextOrders == SyncOrders

SpecOrders == InitSync /\ [][NextOrders]_vars

NextQuestions == SyncQuestions

SpecQuestions == InitSync /\ [][NextQuestions]_vars

---------------------------------------------------------------------------
(* One fetched order or question saved for a seller, over every shape *)

\* An order or a question of the API waits to be saved for a seller.
\* The tables are empty, or seller 1 has synchronised order 1 and question 1
\* before.
InitSave ==
    /\ InitSellers
    /\ \E synced \in BOOLEAN :
        LET seller == Get(users[1])
            before == IF synced
                      THEN sync_orders(NoOrders, users, seller, Get(tokens[1]),
                                       <<MeliOrder(1, PaidVariant)>>).db
                      ELSE NoOrders
        IN  /\ orders = before.orders
            /\ order_items = before.order_items
            /\ payments = before.payments
            /\ questions = IF synced
                           THEN sync_questions(NoQuestions, seller, Get(tokens[1]),
                                               <<MeliQuestion(1, AnswerAt(1))>>).questions
                           ELSE NoQuestions
    /\ pending \in
        {Some([kind |-> "order", user |-> u, item |-> o]) : u \in UserIds, o \in MeliOrders}
        \cup
        {Some([kind |-> "question", user |-> u, item |-> q]) : u \in UserIds, q \in MeliQuestions}

\* sync_orders, the gateway answering the one waiting order
SaveOrder ==
    /\ pending # None
    /\ Get(pending).kind = "order"
    /\ \E r \in {sync_orders(db, users, Get(users[Get(pending).user]),
                             Get(tokens[Get(pending).user]), <<Get(pending).item>>)} :
        /\ orders' = r.db.orders
        /\ order_items' = r.db.order_items
        /\ payments' = r.db.payments
        /\ lastSync' = SyncRecord("sync_orders", Get(users[Get(pending).user]),
                                  Get(tokens[Get(pending).user]), <<Get(pending).item>>,
                                  orders_get_by_user(db, Get(users[Get(pending).user])), r)
    /\ pending' = None
    /\ UNCHANGED <<notifications, events, lastNotification, event_dispatcher, users, tokens, questions, request, last>>

\* sync_questions, the gateway answering the one waiting question
SaveQuestion ==
    /\ pending # None
    /\ Get(pending).kind = "question"
    /\ \E r \in {sync_questions(questions, Get(users[Get(pending).user]),
                                Get(tokens[Get(pending).user]), <<Get(pending).item>>)} :
        /\ questions' = r.questions
        /\ lastSync' = SyncRecord("sync_questions", Get(users[Get(pending).user]),
                                  Get(tokens[Get(pending).user]), <<Get(pending).item>>,
                                  questions_get_by_user(questions, Get(users[Get(pending).user])), r)
    /\ pending' = None
    /\ UNCHANGED <<notifications, events, lastNotification, event_dispatcher, users, tokens, orders, order_items, payments,
                   request, last>>

NextSave == SaveOrder \/ SaveQuestion

SpecSave == InitSave /\ [][NextSave]_vars

---------------------------------------------------------------------------
(* my_auth: the properties of handle_callback and of the view *)

\* C1, as the spec states it: a handle_callback whose token belongs to a
\* user the repository does not hold registers the user (get_by_id of the
\* token's user id then answers a user with that id, the nickname as username
\* and the email) and returns that user.
C1_NewUserRegisteredAndReturned ==
    (last.op = "handle_callback" /\ last.users_before[last.token.user_id] = None) =>
        /\ last.created # None
        /\ last.user_info # None
        /\ users[last.token.user_id] # None
        /\ Get(users[last.token.user_id]).id = last.token.user_id
        /\ Get(users[last.token.user_id]).user.username = Get(last.user_info).nickname
        /\ Get(users[last.token.user_id]).user.email = Get(last.user_info).email
        /\ last.returned = users[last.token.user_id]

\* C1, what the code guarantees: the user is stored as stated, and it is the
\* user returned whenever the dispatch of user_registered did not raise.
C1_RegisteredAndReturnedUnlessRaised ==
    (last.op = "handle_callback" /\ last.users_before[last.token.user_id] = None) =>
        /\ last.created # None
        /\ last.user_info # None
        /\ users[last.token.user_id] # None
        /\ Get(users[last.token.user_id]).id = last.token.user_id
        /\ Get(users[last.token.user_id]).user.username = Get(last.user_info).nickname
        /\ Get(users[last.token.user_id]).user.email = Get(last.user_info).email
        /\ last.raised = None => last.returned = users[last.token.user_id]
        /\ last.raised # None => last.returned = None

\* a registration under the dispatcher of AuthContainer: the user is stored,
\* nothing is returned and no token is saved
C1_RegistrationRaised ==
    /\ last.op = "handle_callback"
    /\ last.users_before[last.token.user_id] = None
    /\ event_dispatcher.impl = "DjangoSignalEventDispatcher"
    /\ last.raised = Some("TypeError")
    /\ last.returned = None
    /\ users[last.token.user_id] # None
    /\ tokens[last.token.user_id] = None

\* C2: a handle_callback whose token belongs to a user the repository holds
\* returns that user, leaves the users as they were, replaces the stored
\* token by the new one, never asks /users/me and creates no user.
C2_ExistingUserKept ==
    (last.op = "handle_callback" /\ last.users_before[last.token.user_id] # None) =>
        /\ last.raised = None
        /\ last.returned = last.users_before[last.token.user_id]
        /\ users = last.users_before
        /\ last.created = None
        /\ tokens = [last.tokens_before EXCEPT ![last.token.user_id] = Some(last.token)]
        /\ \A k \in DOMAIN last.calls : last.calls[k] \notin {"get_user_info", "create"}

\* a user holding a token comes back with another token, which is stored
C2_TokenReplaced ==
    /\ last.op = "handle_callback"
    /\ last.users_before[last.token.user_id] # None
    /\ last.tokens_before[last.token.user_id] # None
    /\ last.tokens_before[last.token.user_id] # Some(last.token)
    /\ tokens[last.token.user_id] = Some(last.token)
    /\ last.returned = users[last.token.user_id]

C4_RegistrationSynchronises ==
    (last.op = "handle_callback" /\ event_dispatcher.impl = "DjangoSignalEventDispatcher") =>
        /\ \A k \in DOMAIN last.dispatched :
            \A service \in {"sync_orders", "sync_questions"} :
                \E j \in DOMAIN last.syncs :
                    last.syncs[j] = [service |-> service,
                                     meli_user |-> last.dispatched[k].meli_user,
                                     token |-> last.dispatched[k].token]
        /\ last.dispatched = <<>> => last.syncs = <<>>

\* C4, the half the code guarantees: a callback of an existing user
\* dispatches nothing and runs no synchronisation.
C4_ExistingUserSynchronisesNothing ==
    (last.op = "handle_callback" /\ last.users_before[last.token.user_id] # None) =>
        last.dispatched = <<>> /\ last.syncs = <<>>

\* user_registered was dispatched through the Django signal and the first
\* receiver raised TypeError when its service was injected: nothing was
\* synchronised
C4_InjectionRaised ==
    /\ last.op = "handle_callback"
    /\ last.users_before[last.token.user_id] = None
    /\ event_dispatcher.impl = "DjangoSignalEventDispatcher"
    /\ Len(last.dispatched) = 1
    /\ last.syncs = <<>>
    /\ last.raised = Some("TypeError")

\* C5, as the spec states it: the view on a request with a code (not empty
\* once stripped) and no error calls handle_callback once with the code,
\* then authenticate_session once with the request and the Django user of
\* the returned user, and redirects (302) to /.
C5_CallbackLogsIn ==
    (request.view = "meli_callback" /\ is_valid(request.GET)) =>
        /\ last.op = "handle_callback"
        /\ last.returned # None
        /\ request.calls =
            <<[fn |-> "handle_callback", arg |-> cleaned_code(request.GET)],
              [fn |-> "authenticate_session", arg |-> Get(last.returned).user]>>
        /\ request.session_user = Some(Get(last.returned).user)
        /\ request.response = [status |-> 302, url |-> "/"]

\* C5, what the code guarantees: handle_callback is the first call, with the
\* code; when it returned, the session is authenticated after it and the
\* answer is the redirect; when it raised, no session is authenticated.
C5_CallbackLogsInUnlessRaised ==
    (request.view = "meli_callback" /\ is_valid(request.GET)) =>
        /\ last.op = "handle_callback"
        /\ request.calls[1] = [fn |-> "handle_callback", arg |-> cleaned_code(request.GET)]
        /\ last.raised = None =>
            /\ last.returned # None
            /\ request.calls =
                <<[fn |-> "handle_callback", arg |-> cleaned_code(request.GET)],
                  [fn |-> "authenticate_session", arg |-> Get(last.returned).user]>>
            /\ request.session_user = Some(Get(last.returned).user)
            /\ request.response = [status |-> 302, url |-> "/"]
        /\ last.raised # None =>
            /\ Len(request.calls) = 1
            /\ request.session_user = None
            /\ request.response.status = 500

\* a valid callback of a new user under the dispatcher of AuthContainer: the
\* user was created, no session was authenticated and no redirect answered
C5_CallbackRaised ==
    /\ request.view = "meli_callback"
    /\ is_valid(request.GET)
    /\ event_dispatcher.impl = "DjangoSignalEventDispatcher"
    /\ last.op = "handle_callback"
    /\ last.raised = Some("TypeError")
    /\ users[last.token.user_id] # None
    /\ request.session_user = None
    /\ request.response.status = 500

\* C6: the view on a request without a code (absent or empty) answers 400,
\* calls neither handle_callback nor authenticate_session, and leaves the
\* users, the tokens and the session as they were.
C6_NoCodeIsRejected ==
    (request.view = "meli_callback" /\ request.GET.code \in {None, Some(<<>>)}) =>
        /\ request.response = [status |-> 400]
        /\ request.calls = <<>>
        /\ last.op = "none"
        /\ request.session_user = None
        /\ users = request.users_before
        /\ tokens = request.tokens_before

\* a request with no parameter at all reached the view while a user was
\* registered, and was answered 400
C6_NoCodeRejected ==
    /\ request.view = "meli_callback"
    /\ request.GET = [code |-> None, error |-> None]
    /\ \E u \in UserIds : users[u] # None /\ tokens[u] # None
    /\ request.response.status = 400

---------------------------------------------------------------------------
(* orders and questions: the properties of the synchronisation services *)

\* C7, as the spec states it: sync_orders saves every fetched order and,
\* starting from a repository with no orders of the user, returns the number
\* of orders get_by_user answers afterwards.
C7_CountEqualsStored ==
    (lastSync.service = "sync_orders" /\ lastSync.before = {}) =>
        /\ lastSync.raised = None
        /\ \A k \in DOMAIN lastSync.fetched :
            /\ orders[lastSync.fetched[k].id] # None
            /\ Get(orders[lastSync.fetched[k].id]).meli_user_id = lastSync.meli_user.id
        /\ lastSync.returned =
            Some(Cardinality(orders_get_by_user(db, lastSync.meli_user)))

\* C7, amended: sync_orders saves every fetched order, one save per element
\* of the gateway's answer, and returns the number of elements (0 and no
\* save for an empty answer); starting from a repository with no orders of
\* the user, that is the number get_by_user answers afterwards when the
\* fetched ids are pairwise distinct.
C7_CountIsFetched ==
    lastSync.service = "sync_orders" =>
        /\ lastSync.raised = None
        /\ lastSync.returned = Some(Len(lastSync.fetched))
        /\ Len(lastSync.saved) = Len(lastSync.fetched)
        /\ \A k \in DOMAIN lastSync.fetched :
            /\ lastSync.saved[k].id = lastSync.fetched[k].id
            /\ orders[lastSync.fetched[k].id] # None
            /\ Get(orders[lastSync.fetched[k].id]).meli_user_id = lastSync.meli_user.id
        /\ lastSync.fetched = <<>> =>
            orders_get_by_user(db, lastSync.meli_user) = lastSync.before
        /\ (/\ lastSync.before = {}
            /\ \A j, k \in DOMAIN lastSync.fetched :
                lastSync.fetched[j].id = lastSync.fetched[k].id => j = k) =>
            lastSync.returned =
                Some(Cardinality(orders_get_by_user(db, lastSync.meli_user)))

\* the gateway answered the same order twice for a user with no orders:
\* sync_orders returned 2 and get_by_user answers one order
C7_RepeatedOrderCounted ==
    /\ lastSync.service = "sync_orders"
    /\ lastSync.before = {}
    /\ Len(lastSync.fetched) = 2
    /\ lastSync.fetched[1].id = lastSync.fetched[2].id
    /\ lastSync.returned = Some(2)
    /\ Cardinality(orders_get_by_user(db, lastSync.meli_user)) = 1

\* C9, as the spec states it: sync_questions saves every fetched question
\* and, starting from a repository with no questions of the user, returns
\* the number of questions get_by_user answers afterwards.
C9_CountEqualsStored ==
    (lastSync.service = "sync_questions" /\ lastSync.before = {}) =>
        /\ lastSync.raised = None
        /\ \A k \in DOMAIN lastSync.fetched :
            /\ questions[lastSync.fetched[k].id] # None
            /\ Get(questions[lastSync.fetched[k].id]).meli_user_id = lastSync.meli_user.id
        /\ lastSync.returned =
            Some(Cardinality(questions_get_by_user(questions, lastSync.meli_user)))

\* C9, amended: sync_questions saves every fetched question, one save per
\* element of the gateway's answer, and returns the number of elements (0
\* and no save for an empty answer); starting from a repository with no
\* questions of the user, that is the number get_by_user answers afterwards
\* when the fetched ids are pairwise distinct.
C9_CountIsFetched ==
    lastSync.service = "sync_questions" =>
        /\ lastSync.raised = None
        /\ lastSync.returned = Some(Len(lastSync.fetched))
        /\ lastSync.saved = [k \in DOMAIN lastSync.fetched |-> lastSync.fetched[k].id]
        /\ \A k \in DOMAIN lastSync.fetched :
            /\ questions[lastSync.fetched[k].id] # None
            /\ Get(questions[lastSync.fetched[k].id]).meli_user_id = lastSync.meli_user.id
        /\ lastSync.fetched = <<>> =>
            questions_get_by_user(questions, lastSync.meli_user) = lastSync.before
        /\ (/\ lastSync.before = {}
            /\ \A j, k \in DOMAIN lastSync.fetched :
                lastSync.fetched[j].id = lastSync.fetched[k].id => j = k) =>
            lastSync.returned =
                Some(Cardinality(questions_get_by_user(questions, lastSync.meli_user)))

\* the gateway answered the same question twice for a user with no
\* questions: sync_questions returned 2 and get_by_user answers one question
C9_RepeatedQuestionCounted ==
    /\ lastSync.service = "sync_questions"
    /\ lastSync.before = {}
    /\ Len(lastSync.fetched) = 2
    /\ lastSync.fetched[1].id = lastSync.fetched[2].id
    /\ lastSync.returned = Some(2)
    /\ Cardinality(questions_get_by_user(questions, lastSync.meli_user)) = 1

\* C8, as the spec states it: the order sync_orders saves carries the fetched
\* order's id, status, buyer fields and total amount, is owned by the
\* meli_user, holds one stored item and one stored payment per fetched one
\* (same title, quantity, unit price; same status, payment type), and its
\* buyer_phone is the area code and the number joined by one space and
\* stripped, or None when the order has no phone or both parts are empty.
C8_SavedOrderCarriesFetched ==
    (lastSync.service = "sync_orders" /\ Len(lastSync.fetched) = 1) =>
        LET order == lastSync.fetched[1]
            stored == Get(orders[order.id])
            items == order_items[order.id]
            pays == payments[order.id]
            phone == order.buyer.phone
            area_code == IF phone # None /\ "area_code" \in DOMAIN Get(phone)
                            /\ Get(phone).area_code # None
                         THEN Get(Get(phone).area_code) ELSE <<>>
            number == IF phone # None /\ "number" \in DOMAIN Get(phone)
                         /\ Get(phone).number # None
                      THEN Get(Get(phone).number) ELSE <<>>
        IN  /\ orders[order.id] # None
            /\ stored.id = order.id
            /\ stored.meli_user_id = lastSync.meli_user.id
            /\ stored.status = order.status
            /\ stored.buyer_id = order.buyer.id
            /\ stored.buyer_nickname = order.buyer.nickname
            /\ stored.buyer_email = order.buyer.email
            /\ stored.buyer_first_name = order.buyer.first_name
            /\ stored.buyer_last_name = order.buyer.last_name
            /\ stored.total_amount = order.total_amount
            /\ Len(items) = Len(order.order_items)
            /\ \A k \in DOMAIN items :
                /\ items[k].title = Get(DictGet(order.order_items[k].item, "title", Some(<<>>)))
                /\ items[k].quantity = order.order_items[k].quantity
                /\ items[k].unit_price = order.order_items[k].unit_price
            /\ Len(pays) = Len(order.payments)
            /\ \A k \in DOMAIN pays :
                /\ pays[k].status = order.payments[k].status
                /\ pays[k].payment_type = order.payments[k].payment_type
            /\ stored.buyer_phone =
                IF area_code = <<>> /\ number = <<>>
                THEN None
                ELSE Some(strip(area_code \o <<" ">> \o number))

\* C8, what the code guarantees: all of the above but the phone, and the
\* phone too for an order whose phone has no part that is null opposite a
\* part that is not empty.
C8_SavedOrderUnlessNullPhonePart ==
    (lastSync.service = "sync_orders" /\ Len(lastSync.fetched) = 1) =>
        LET order == lastSync.fetched[1]
            stored == Get(orders[order.id])
            items == order_items[order.id]
            pays == payments[order.id]
            phone == order.buyer.phone
            area == IF phone # None THEN DictGet(Get(phone), "area_code", Some(<<>>))
                    ELSE Some(<<>>)
            num == IF phone # None THEN DictGet(Get(phone), "number", Some(<<>>))
                   ELSE Some(<<>>)
        IN  /\ orders[order.id] # None
            /\ stored.id = order.id
            /\ stored.meli_user_id = lastSync.meli_user.id
            /\ stored.status = order.status
            /\ stored.buyer_id = order.buyer.id
            /\ stored.buyer_nickname = order.buyer.nickname
            /\ stored.buyer_email = order.buyer.email
            /\ stored.buyer_first_name = order.buyer.first_name
            /\ stored.buyer_last_name = order.buyer.last_name
            /\ stored.total_amount = order.total_amount
            /\ Len(items) = Len(order.order_items)
            /\ \A k \in DOMAIN items :
                /\ items[k].title = Get(DictGet(order.order_items[k].item, "title", Some(<<>>)))
                /\ items[k].quantity = order.order_items[k].quantity
                /\ items[k].unit_price = order.order_items[k].unit_price
            /\ Len(pays) = Len(order.payments)
            /\ \A k \in DOMAIN pays :
                /\ pays[k].status = order.payments[k].status
                /\ pays[k].payment_type = order.payments[k].payment_type
            /\ (area # None /\ num # None) =>
                stored.buyer_phone =
                    IF Get(area) = <<>> /\ Get(num) = <<>>
                    THEN None
                    ELSE Some(strip(Get(area) \o <<" ">> \o Get(num)))
            /\ (area = None /\ num = None) => stored.buyer_phone = None
            /\ (area = None /\ num = Some(<<>>)) => stored.buyer_phone = None
            /\ (area = Some(<<>>) /\ num = None) => stored.buyer_phone = None

\* an order whose phone has a null area code and a number was saved: the
\* stored buyer_phone is the text None, a space and the number
C8_NullAreaCodeFormatted ==
    /\ lastSync.service = "sync_orders"
    /\ Len(lastSync.fetched) = 1
    /\ lastSync.fetched[1].buyer.phone =
        Some([area_code |-> None, number |-> Some(<<"1", "1">>)])
    /\ Get(orders[lastSync.fetched[1].id]).buyer_phone =
        Some(<<"N", "o", "n", "e", " ", "1", "1">>)

\* C10: the question sync_questions saves keeps the fetched question's id,
\* item_id, text, status and asking user's id and is owned by the meli_user;
\* its answer_text and answer_date_created are both set, from the answer,
\* when the fetched question has an answer, and both None when it has none.
C10_SavedQuestionCarriesFetched ==
    (lastSync.service = "sync_questions" /\ Len(lastSync.fetched) = 1) =>
        LET question == lastSync.fetched[1]
            stored == Get(questions[question.id])
        IN  /\ questions[question.id] # None
            /\ stored.id = question.id
            /\ stored.meli_user_id = lastSync.meli_user.id
            /\ stored.item_id = question.item_id
            /\ stored.text = question.text
            /\ stored.status = question.status
            /\ stored.from_user_id = question.from_.id
            /\ question.answer # None =>
                /\ stored.answer_text = Some(Get(question.answer).text)
                /\ stored.answer_date_created # None
                /\ Get(stored.answer_date_created).instant =
                    Get(question.answer).date_created[1]
            /\ question.answer = None =>
                /\ stored.answer_text = None
                /\ stored.answer_date_created = None

\* a question answered with an empty text was saved over a question stored
\* before: its answer_text is set to the empty text and its date is set
C10_EmptyAnswerSaved ==
    /\ lastSync.service = "sync_questions"
    /\ Len(lastSync.fetched) = 1
    /\ lastSync.before # {}
    /\ lastSync.fetched[1].answer # None
    /\ Get(lastSync.fetched[1].answer).text = <<>>
    /\ Get(questions[lastSync.fetched[1].id]).answer_text = Some(<<>>)
    /\ Get(questions[lastSync.fetched[1].id]).answer_date_created # None

---------------------------------------------------------------------------
(* One call of a synchronisation service, over every token and answer *)

\* A caller is about to run sync_orders or sync_questions for a seller with
\* some token (the services take the token as given), and the gateway is
\* about to answer some list.
InitFetch ==
    /\ InitSellers
    /\ orders = NoOrders.orders
    /\ order_items = NoOrders.order_items
    /\ payments = NoOrders.payments
    /\ questions = NoQuestions
    /\ pending \in
        {Some([kind |-> "sync_orders", user |-> u, token |-> t, fetched |-> f]) :
            u \in UserIds, t \in Tokens, f \in OrderBatches}
        \cup
        {Some([kind |-> "sync_questions", user |-> u, token |-> t, fetched |-> f]) :
            u \in UserIds, t \in Tokens, f \in QuestionBatches}

\* the waiting call of sync_orders runs
CallSyncOrders ==
    /\ pending # None
    /\ Get(pending).kind = "sync_orders"
    /\ \E r \in {sync_orders(db, users, Get(users[Get(pending).user]),
                             Get(pending).token, Get(pending).fetched)} :
        /\ orders' = r.db.orders
        /\ order_items' = r.db.order_items
        /\ payments' = r.db.payments
        /\ lastSync' = SyncRecord("sync_orders", Get(users[Get(pending).user]),
                                  Get(pending).token, Get(pending).fetched,
                                  orders_get_by_user(db, Get(users[Get(pending).user])), r)
    /\ pending' = None
    /\ UNCHANGED <<notifications, events, lastNotification, event_dispatcher, users,
                   tokens, questions, request, last>>

\* the waiting call of sync_questions runs
CallSyncQuestions ==
    /\ pending # None
    /\ Get(pending).kind = "sync_questions"
    /\ \E r \in {sync_questions(questions, Get(users[Get(pending).user]),
                                Get(pending).token, Get(pending).fetched)} :
        /\ questions' = r.questions
        /\ lastSync' = SyncRecord("sync_questions", Get(users[Get(pending).user]),
                                  Get(pending).token, Get(pending).fetched,
                                  questions_get_by_user(questions, Get(users[Get(pending).user])), r)
    /\ pending' = None
    /\ UNCHANGED <<notifications, events, lastNotification, event_dispatcher, users,
                   tokens, orders, order_items, payments, request, last>>

NextFetch == CallSyncOrders \/ CallSyncQuestions

SpecFetch == InitFetch /\ [][NextFetch]_vars

\* C11: each call of sync_orders or sync_questions calls its gateway exactly
\* once, with exactly the token passed to the call, whatever the number of
\* items the gateway answers.
C11_GatewayCalledOnceWithToken ==
    lastSync.service \in {"sync_orders", "sync_questions"} =>
        /\ Len(lastSync.gateway_calls) = 1
        /\ lastSync.gateway_calls[1] = lastSync.token

\* sync_questions ran for a seller with a token of another account and the
\* gateway answered two questions: the gateway was called once, with that token
C11_TwoFetchedOneCall ==
    /\ lastSync.service = "sync_questions"
    /\ lastSync.token.user_id # lastSync.meli_user.id
    /\ Len(lastSync.fetched) = 2
    /\ lastSync.returned = Some(2)
    /\ lastSync.gateway_calls = <<lastSync.token>>

---------------------------------------------------------------------------
(* notifications: the repository and NotificationService *)

\* the length a question text is cut to in a notification
PreviewLength == 100

\* the texts of the questions notified: the character at place k is the last
\* digit of k, so that a text cut at any place differs from the text
Digits == <<"0", "1", "2", "3", "4", "5", "6", "7", "8", "9">>
Text(n) == [k \in 1..n |-> Digits[(k % 10) + 1]]
TextLengths == {0, 2, 100, 101, 103}
QuestionTexts == {Text(n) : n \in TextLengths}

\* the statuses an order notification is created for: those with a title of
\* their own and one without
NotifiedStatuses == {"paid", "confirmed", "payment_required", "cancelled"}

\* s[:n]
Prefix(s, n) == SubSeq(s, 1, IF Len(s) < n THEN Len(s) ELSE n)

\* a preview that also cuts a text of exactly PreviewLength characters
preview_inclusive(question_text) ==
    IF Len(question_text) >= PreviewLength
    THEN Prefix(question_text, PreviewLength) \o <<".", ".", ".">>
    ELSE question_text

\* question_text[:100] + "..." if len(question_text) > 100 else question_text
preview(question_text) ==
    IF Len(question_text) > PreviewLength
    THEN Prefix(question_text, PreviewLength) \o <<".", ".", ".">>
    ELSE question_text

\* 'Pregunta: '
Pregunta == <<"P", "r", "e", "g", "u", "n", "t", "a", ":", " ">>

\* QuestionNotificationSerializer / OrderNotificationSerializer .to_model and
\* Notification.save(): the row gets the next id and the time of its creation
\* (auto_now_add, counted in rows created); id, created_at and read_at of the
\* DTO are not copied
to_model(notifs, dto) ==
    [id |-> Len(notifs) + 1,
     type |-> dto.type,
     meli_user_id |-> dto.meli_user_id,
     title |-> dto.title,
     message |-> dto.message,
     created_at |-> Len(notifs) + 1,
     read_at |-> None,
     question_id |-> IF dto.type = "question" THEN Some(dto.question_id) ELSE None,
     order_id |-> IF dto.type = "order" THEN Some(dto.order_id) ELSE None,
     status_change |-> IF dto.type = "order" THEN Some(dto.status_change) ELSE None]

\* get_serializer(n.type).to_dto(n)
to_dto(n) ==
    IF n.type = "question"
    THEN [id |-> Some(n.id), type |-> n.type, meli_user_id |-> n.meli_user_id,
          title |-> n.title, message |-> n.message, created_at |-> n.created_at,
          read_at |-> n.read_at, question_id |-> Get(n.question_id)]
    ELSE [id |-> Some(n.id), type |-> n.type, meli_user_id |-> n.meli_user_id,
          title |-> n.title, message |-> n.message, created_at |-> n.created_at,
          read_at |-> n.read_at, order_id |-> Get(n.order_id),
          status_change |-> IF TruthyStr(n.status_change)
                            THEN Get(n.status_change) ELSE <<>>]

\* DBNotificationRepository.save(notification_data): the table afterwards and
\* the persisted version returned
DBNotificationRepository_save(notifs, notification_data) ==
    CHOOSE result \in
        {[notifications |-> Append(notifs, n), returned |-> to_dto(n)] :
            n \in {to_model(notifs, notification_data)}} : TRUE

\* a get_by_user that does not filter by seller
notifications_get_by_user_all(notifs, meli_user) ==
    [k \in 1..Len(notifs) |-> to_dto(notifs[k])]

\* DBNotificationRepository.get_by_user(meli_user): the seller's notifications
notifications_get_by_user(notifs, meli_user) ==
    LET RECURSIVE filter(_)
        filter(k) ==
            IF k > Len(notifs) THEN <<>>
            ELSE IF notifs[k].meli_user_id = meli_user.id
                 THEN <<to_dto(notifs[k])>> \o filter(k + 1)
                 ELSE filter(k + 1)
    IN  filter(1)

\* NotificationService.create_question_notification(meli_user, question_id,
\* question_text)
create_question_notification(notifs, meli_user, question_id, question_text) ==
    DBNotificationRepository_save(notifs,
        [id |-> None,
         type |-> "question",
         meli_user_id |-> meli_user.id,
         title |-> "Nueva pregunta recibida",
         message |-> Pregunta \o preview(question_text),
         created_at |-> 0,
         question_id |-> question_id])

\* status_messages.get(status, f'Actualización de orden #{order_id}')
order_title(order_id, status) ==
    IF status = "paid" THEN <<"Tu orden ha sido pagada">>
    ELSE IF status = "confirmed" THEN <<"Tu orden ha sido confirmada">>
    ELSE IF status = "payment_required" THEN <<"Tu orden requiere pago">>
    ELSE <<"Actualización de orden #", order_id>>

\* NotificationService.create_order_notification(meli_user, order_id, status);
\* a status is a text, kept as the list of its parts
create_order_notification(notifs, meli_user, order_id, status) ==
    DBNotificationRepository_save(notifs,
        [id |-> None,
         type |-> "order",
         meli_user_id |-> meli_user.id,
         title |-> order_title(order_id, status),
         message |-> <<"La orden #", order_id, " cambió a estado: ", status>>,
         created_at |-> 0,
         order_id |-> order_id,
         status_change |-> <<status>>])

\* the most notifications created in a run
MaxNotifications == 2

\* Sellers are registered and nothing is stored yet.
InitNotify ==
    /\ InitSellers
    /\ orders = NoOrders.orders
    /\ order_items = NoOrders.order_items
    /\ payments = NoOrders.payments
    /\ questions = NoQuestions
    /\ pending = None

\* a caller runs create_question_notification for a seller
CreateQuestionNotification ==
    /\ Len(notifications) < MaxNotifications
    /\ \E u \in UserIds, question_id \in QuestionIds, question_text \in QuestionTexts :
        \E r \in {create_question_notification(notifications, Get(users[u]),
                                               question_id, question_text)} :
            /\ notifications' = r.notifications
            /\ lastNotification' = [op |-> "create_question_notification",
                                    meli_user |-> Get(users[u]),
                                    question_id |-> question_id,
                                    question_text |-> question_text,
                                    returned |-> r.returned]
    /\ UNCHANGED <<events, event_dispatcher, users, tokens, orders, order_items,
                   payments, questions, request, last, lastSync, pending>>

\* a caller runs create_order_notification for a seller
CreateOrderNotification ==
    /\ Len(notifications) < MaxNotifications
    /\ \E u \in UserIds, order_id \in OrderIds, status \in NotifiedStatuses :
        \E r \in {create_order_notification(notifications, Get(users[u]),
                                            order_id, status)} :
            /\ notifications' = r.notifications
            /\ lastNotification' = [op |-> "create_order_notification",
                                    meli_user |-> Get(users[u]),
                                    order_id |-> order_id,
                                    status |-> status,
                                    returned |-> r.returned]
    /\ UNCHANGED <<events, event_dispatcher, users, tokens, orders, order_items,
                   payments, questions, request, last, lastSync, pending>>

NextNotify == CreateQuestionNotification \/ CreateOrderNotification

SpecNotify == InitNotify /\ [][NextNotify]_vars

\* C12: create_question_notification saves and returns a question
\* notification with type 'question', the given question_id, the given user's
\* id, the title 'Nueva pregunta recibida' and the message 'Pregunta: '
\* followed by the question text, a text longer than 100 characters cut to
\* its first 100 characters followed by '...' and a text of at most 100
\* characters whole.
C12_QuestionNotificationSavedAndReturned ==
    lastNotification.op = "create_question_notification" =>
        /\ lastNotification.returned.type = "question"
        /\ lastNotification.returned.question_id = lastNotification.question_id
        /\ lastNotification.returned.meli_user_id = lastNotification.meli_user.id
        /\ lastNotification.returned.title = "Nueva pregunta recibida"
        /\ lastNotification.returned.message =
            <<"P", "r", "e", "g", "u", "n", "t", "a", ":", " ">> \o
            (IF Len(lastNotification.question_text) > 100
             THEN SubSeq(lastNotification.question_text, 1, 100) \o <<".", ".", ".">>
             ELSE lastNotification.question_text)
        /\ lastNotification.returned.id = Some(Len(notifications))
        /\ notifications[Len(notifications)].type = "question"
        /\ notifications[Len(notifications)].question_id =
            Some(lastNotification.question_id)
        /\ notifications[Len(notifications)].meli_user_id = lastNotification.meli_user.id
        /\ notifications[Len(notifications)].title = lastNotification.returned.title
        /\ notifications[Len(notifications)].message = lastNotification.returned.message

\* a notification was created for a question of 101 characters: its message
\* is 'Pregunta: ', the first 100 characters and '...'
C12_LongTextCut ==
    /\ lastNotification.op = "create_question_notification"
    /\ Len(lastNotification.question_text) = 101
    /\ Len(lastNotification.returned.message) = 113
    /\ lastNotification.returned.message[110] = "0"
    /\ lastNotification.returned.message[113] = "."
    /\ Len(notifications) = 2

---------------------------------------------------------------------------
(* saving an order again *)

\* C13: saving an order is an upsert keyed by the order id: after a
\* synchronisation each order id fetched has one stored order, whose fields,
\* items and payments are exactly those of the most recent save for that id
\* (the items and payments of earlier saves are deleted, never accumulated),
\* the orders of the other ids are as they were, and repeating sync_orders
\* with the same fetched orders leaves the stored orders unchanged.
C13_SaveIsUpsert ==
    [][lastSync'.service = "sync_orders" /\ lastSync'.raised = None =>
        /\ \A id \in OrderIds :
            LET places == {k \in 1..Len(lastSync'.fetched) : lastSync'.fetched[k].id = id}
            IN  IF places = {}
                THEN /\ orders'[id] = orders[id]
                     /\ order_items'[id] = order_items[id]
                     /\ payments'[id] = payments[id]
                ELSE /\ orders'[id] # None
                     /\ to_order_data(db', id) =
                            build_order_data(lastSync'.meli_user,
                                lastSync'.fetched[CHOOSE k \in places :
                                                    \A j \in places : j <= k])
        /\ sync_orders(db', users', lastSync'.meli_user, lastSync'.token,
                       lastSync'.fetched).db = db'
    ]_vars

\* an order stored with two items and no payment was saved again with one
\* item and one payment: the stored order has the one item and the one payment
C13_OrderSavedOver ==
    /\ lastSync.service = "sync_orders"
    /\ lastSync.raised = None
    /\ \E id \in OrderIds :
        /\ \E o \in lastSync.before :
            o.id = id /\ Len(o.order_items) = 2 /\ Len(o.payments) = 0
        /\ orders[id] # None
        /\ Len(order_items[id]) = 1
        /\ Len(payments[id]) = 1

---------------------------------------------------------------------------
(* several sellers on the same tables *)

\* the answers of the gateways to the sellers' synchronisations: the ids are
\* those of MercadoLibre, so two sellers can be answered the same id
ListedOrders ==
    {<<MeliOrder(1, PaidVariant)>>,
     <<MeliOrder(2, CancelledVariant)>>,
     <<MeliOrder(1, PaidVariant), MeliOrder(2, CancelledVariant)>>}

ListedQuestions ==
    {<<MeliQuestion(1, AnswerAt(1))>>,
     <<MeliQuestion(2, AnswerAt(2))>>,
     <<MeliQuestion(1, AnswerAt(1)), MeliQuestion(2, AnswerAt(2))>>}

\* what is recorded of a synchronisation here: the service and the seller
SellerSync(service, meli_user) == [service |-> service, meli_user |-> meli_user]

\* sync_orders for a seller
SellerSyncsOrders ==
    \E u \in UserIds, fetched \in ListedOrders :
    \E r \in {sync_orders(db, users, Get(users[u]), Get(tokens[u]), fetched)} :
        /\ orders' = r.db.orders
        /\ order_items' = r.db.order_items
        /\ payments' = r.db.payments
        /\ lastSync' = SellerSync("sync_orders", Get(users[u]))
        /\ UNCHANGED <<notifications, events, lastNotification, event_dispatcher, users,
                       tokens, questions, request, last, pending>>

\* sync_questions for a seller
SellerSyncsQuestions ==
    \E u \in UserIds, fetched \in ListedQuestions :
    \E r \in {sync_questions(questions, Get(users[u]), Get(tokens[u]), fetched)} :
        /\ questions' = r.questions
        /\ lastSync' = SellerSync("sync_questions", Get(users[u]))
        /\ UNCHANGED <<notifications, events, lastNotification, event_dispatcher, users,
                       tokens, orders, order_items, payments, request, last, pending>>

\* create_question_notification for a seller; the notifications created here
\* are in turn of a question and of an order
SellerGetsQuestionNotification ==
    /\ Len(notifications) < MaxNotifications
    /\ Len(notifications) % 2 = 0
    /\ \E u \in UserIds :
        \E r \in {create_question_notification(notifications, Get(users[u]), 1, Text(2))} :
            /\ notifications' = r.notifications
            /\ lastNotification' = [op |-> "create_question_notification",
                                    meli_user |-> Get(users[u]),
                                    question_id |-> 1,
                                    question_text |-> Text(2),
                                    returned |-> r.returned]
    /\ UNCHANGED <<events, event_dispatcher, users, tokens, orders, order_items,
                   payments, questions, request, last, lastSync, pending>>

\* create_order_notification for a seller
SellerGetsOrderNotification ==
    /\ Len(notifications) < MaxNotifications
    /\ Len(notifications) % 2 = 1
    /\ \E u \in UserIds :
        \E r \in {create_order_notification(notifications, Get(users[u]), 1, "paid")} :
            /\ notifications' = r.notifications
            /\ lastNotification' = [op |-> "create_order_notification",
                                    meli_user |-> Get(users[u]),
                                    order_id |-> 1,
                                    status |-> "paid",
                                    returned |-> r.returned]
    /\ UNCHANGED <<events, event_dispatcher, users, tokens, orders, order_items,
                   payments, questions, request, last, lastSync, pending>>

NextIsolation ==
    \/ SellerSyncsOrders
    \/ SellerSyncsQuestions
    \/ SellerGetsQuestionNotification
    \/ SellerGetsOrderNotification

SpecIsolation == InitNotify /\ [][NextIsolation]_vars

\* C14: after any sequence of order syncs, question syncs and notification
\* creations for several sellers, get_by_user(u) of the order, question and
\* notification repositories returns only records owned by u: every record
\* listed carries u's id, and a step puts a record into the lists of a seller
\* only when it is a sync or a notification creation for that seller.
C14_PerUserIsolation ==
    /\ [](\A u \in UserIds :
            /\ \A o \in orders_get_by_user(db, Get(users[u])) :
                o.meli_user_id = Get(users[u]).id
            /\ \A q \in questions_get_by_user(questions, Get(users[u])) :
                q.meli_user_id = Get(users[u]).id
            /\ \A k \in DOMAIN notifications_get_by_user(notifications, Get(users[u])) :
                notifications_get_by_user(notifications, Get(users[u]))[k].meli_user_id =
                    Get(users[u]).id)
    /\ [][\A u \in UserIds :
            \/ lastNotification' = lastNotification
                /\ lastSync'.meli_user = Get(users[u])
            \/ lastNotification' # lastNotification
                /\ lastNotification'.meli_user = Get(users[u])
            \/ /\ orders_get_by_user(db', Get(users[u])) \subseteq
                    orders_get_by_user(db, Get(users[u]))
               /\ questions_get_by_user(questions', Get(users[u])) \subseteq
                    questions_get_by_user(questions, Get(users[u]))
               /\ notifications_get_by_user(notifications', Get(users[u])) =
                    notifications_get_by_user(notifications, Get(users[u]))
       ]_vars

\* two sellers each have an order, a question and a notification stored
C14_TwoSellersStored ==
    \A u \in {1, 2} :
        /\ orders_get_by_user(db, Get(users[u])) # {}
        /\ questions_get_by_user(questions, Get(users[u])) # {}
        /\ notifications_get_by_user(notifications, Get(users[u])) # <<>>

---------------------------------------------------------------------------
(* notifications: the receivers of question_received and order_synced *)

\* the signals notifications.signals imports
question_received == "question_received"
order_synced == "order_synced"

\* the parameters of NotificationService.__init__ and the keywords
\* NotificationContainer.notification_service passes
NotificationService_init == {"notification_repository"}
NotificationContainer_notification_service == {"notification_repository"}

\* notifications.signals.on_question_received: the injected service is
\* built, then create_question_notification runs; created lists what the
\* service returned
on_question_received(notifs, meli_user, question_id, question_text) ==
    LET injected == Provide(NotificationService_init,
                            NotificationContainer_notification_service) IN
    IF injected # None
    THEN [notifications |-> notifs, raised |-> injected, created |-> <<>>]
    ELSE CHOOSE result \in
            {[notifications |-> r.notifications, raised |-> None,
              created |-> <<r.returned>>] :
                r \in {create_question_notification(notifs, meli_user, question_id,
                                                    question_text)}} : TRUE

\* a receiver of order_synced that creates the notification twice
on_order_synced_twice(notifs, meli_user, order_id, status) ==
    CHOOSE result \in
        {[notifications |-> r.notifications, raised |-> None, created |-> <<r.returned>>] :
            r \in {create_order_notification(
                       create_order_notification(notifs, meli_user, order_id,
                                                 status).notifications,
                       meli_user, order_id, status)}} : TRUE

\* notifications.signals.on_order_synced
on_order_synced(notifs, meli_user, order_id, status) ==
    LET injected == Provide(NotificationService_init,
                            NotificationContainer_notification_service) IN
    IF injected # None
    THEN [notifications |-> notifs, raised |-> injected, created |-> <<>>]
    ELSE CHOOSE result \in
            {[notifications |-> r.notifications, raised |-> None,
              created |-> <<r.returned>>] :
                r \in {create_order_notification(notifs, meli_user, order_id, status)}} :
            TRUE

\* signal.send(sender, **event): the receiver connected to the signal runs
Signal_send(notifs, event) ==
    IF event.signal = question_received
    THEN on_question_received(notifs, event.meli_user, event.question_id,
                              event.question_text)
    ELSE on_order_synced(notifs, event.meli_user, event.order_id, event.status)

\* the events sent: a question of a short or a long text, an order in a
\* status with a title of its own or without
QuestionEvents ==
    {[signal |-> question_received, meli_user |-> Get(users[u]), question_id |-> q,
      question_text |-> Text(n)] : u \in UserIds, q \in QuestionIds, n \in {2, 101}}

OrderEvents ==
    {[signal |-> order_synced, meli_user |-> Get(users[u]), order_id |-> o,
      status |-> status] : u \in UserIds, o \in OrderIds, status \in {"paid", "cancelled"}}

\* the record of the call of the service a receiver made
ReceiverCall(event, sent) ==
    IF sent.created = <<>> THEN lastNotification
    ELSE IF event.signal = question_received
    THEN [op |-> "create_question_notification", meli_user |-> event.meli_user,
          question_id |-> event.question_id, question_text |-> event.question_text,
          returned |-> sent.created[1]]
    ELSE [op |-> "create_order_notification", meli_user |-> event.meli_user,
          order_id |-> event.order_id, status |-> event.status,
          returned |-> sent.created[1]]

\* question_received is sent for a seller's question
SendQuestionReceived ==
    /\ Len(events) < MaxNotifications
    /\ \E event \in QuestionEvents :
        \E sent \in {Signal_send(notifications, event)} :
            /\ events' = Append(events, event)
            /\ notifications' = sent.notifications
            /\ lastNotification' = ReceiverCall(event, sent)
    /\ UNCHANGED <<event_dispatcher, users, tokens, orders, order_items, payments,
                   questions, request, last, lastSync, pending>>

\* order_synced is sent for a seller's order
SendOrderSynced ==
    /\ Len(events) < MaxNotifications
    /\ \E event \in OrderEvents :
        \E sent \in {Signal_send(notifications, event)} :
            /\ events' = Append(events, event)
            /\ notifications' = sent.notifications
            /\ lastNotification' = ReceiverCall(event, sent)
    /\ UNCHANGED <<event_dispatcher, users, tokens, orders, order_items, payments,
                   questions, request, last, lastSync, pending>>

NextEvents == SendQuestionReceived \/ SendOrderSynced

SpecEvents == InitNotify /\ [][NextEvents]_vars

\* C15 as stated: every order_synced event creates exactly one order
\* notification for the event's meli_user carrying the event's order_id and
\* status, every question_received event creates exactly one question
\* notification for the event's meli_user carrying the event's question_id
\* and question text, and no notification is created without such an event:
\* the notifications are, one for one and in order, those of the events.
C15_EventsNotified ==
    /\ Len(notifications) = Len(events)
    /\ \A k \in 1..Len(events) :
        /\ k <= Len(notifications)
        /\ notifications[k].meli_user_id = events[k].meli_user.id
        /\ IF events[k].signal = "order_synced"
           THEN /\ notifications[k].type = "order"
                /\ notifications[k].order_id = Some(events[k].order_id)
                /\ notifications[k].status_change = Some(<<events[k].status>>)
           ELSE /\ notifications[k].type = "question"
                /\ notifications[k].question_id = Some(events[k].question_id)
                /\ notifications[k].message =
                    <<"P", "r", "e", "g", "u", "n", "t", "a", ":", " ">> \o
                    events[k].question_text

\* C15 amended: the same, the question notification carrying the question
\* text whole when it has at most 100 characters and its first 100
\* characters followed by '...' when it is longer.
C15_EventsNotifiedWithPreview ==
    /\ Len(notifications) = Len(events)
    /\ \A k \in 1..Len(events) :
        /\ k <= Len(notifications)
        /\ notifications[k].meli_user_id = events[k].meli_user.id
        /\ IF events[k].signal = "order_synced"
           THEN /\ notifications[k].type = "order"
                /\ notifications[k].order_id = Some(events[k].order_id)
                /\ notifications[k].status_change = Some(<<events[k].status>>)
                /\ notifications[k].question_id = None
           ELSE /\ notifications[k].type = "question"
                /\ notifications[k].question_id = Some(events[k].question_id)
                /\ notifications[k].order_id = None
                /\ notifications[k].message =
                    <<"P", "r", "e", "g", "u", "n", "t", "a", ":", " ">> \o
                    (IF Len(events[k].question_text) <= 100
                     THEN events[k].question_text
                     ELSE SubSeq(events[k].question_text, 1, 100) \o <<".", ".", ".">>)

\* an order_synced event and then a question_received event of a question of
\* 101 characters were sent, and two notifications are stored
C15_OrderThenLongQuestion ==
    /\ Len(events) = 2
    /\ events[1].signal = "order_synced"
    /\ events[2].signal = "question_received"
    /\ Len(events[2].question_text) = 101
    /\ Len(notifications) = 2
    /\ notifications[2].type = "question"

====
